---- MODULE Spec2Model ----
(***************************************************************************)
(* StaticEnvironment (adala/environments/static_env.py): an environment    *)
(* that owns a ground-truth dataframe and compares predictions with it.    *)
(*                                                                         *)
(* A dataframe is a record [columns, index, data] with data[c][r] the cell *)
(* of column c at row label r; a series is [name, index, data, ndim].      *)
(* Row labels are unique and their order is abstracted (index is a set).   *)
(* True/False cells are the strings "True"/"False" so that a column can    *)
(* hold them next to NaN.  Optional arguments are {} (None) or {n}.        *)
(***************************************************************************)
EXTENDS Integers, Sequences, FiniteSets, TLC

VARIABLES
    df,                    \* StaticEnvironment.df
    ground_truth_columns,  \* StaticEnvironment.ground_truth_columns
    matching_function,     \* StaticEnvironment.matching_function
    matching_threshold,    \* StaticEnvironment.matching_threshold (percent)
    op,                    \* the last method called on the environment
    skills,                \* last call: skills.get_skill_outputs()
    predictions,           \* the caller's predictions dataframe
    num_feedbacks,         \* last call: num_feedbacks / batch_size
    sample,                \* last call: row labels picked by .sample(n)
    raised,                \* last call: exception class raised, "" if none
    fb,                    \* last call: EnvironmentFeedback returned
    batch,                 \* last call: dataframe returned by get_data_batch
    constructed,           \* the environment's fields as it was constructed
    history                \* a method was called before the last call

env  == <<df, ground_truth_columns, matching_function, matching_threshold>>
vars == <<df, ground_truth_columns, matching_function, matching_threshold,
          op, skills, predictions, num_feedbacks, sample, raised, fb, batch,
          constructed, history>>

----------------------------------------------------------------------------
(* Bounds and input universes *)

MaxRows == 2
Rows == 1..MaxRows

NaN == "<NaN>"
Values == {"dog", "doge"}
Cell == Values \cup {NaN}

True == "True"
False == "False"
Bool(b) == IF b THEN True ELSE False

None == {}
Some(n) == {n}

DefaultThreshold == 90

\* dataframes over one of the column sets colsets, any index within Rows
Frames(colsets, cells) ==
    UNION { UNION { [columns : {cs}, index : {ix}, data : [cs -> [ix -> cells]]]
                    : ix \in SUBSET Rows } : cs \in colsets }

EmptyFrame == [columns |-> {}, index |-> {}, data |-> <<>>]
NoFeedback == [match |-> EmptyFrame, feedback |-> EmptyFrame]

Str(name) == [kind |-> "str", name |-> name]
Callable(name) == [kind |-> "callable", name |-> name]

----------------------------------------------------------------------------
(* Series and dataframe primitives used by get_feedback *)

\* predictions[pred_column], self.df[gt_column]
Column(frame, c) == [index |-> frame.index, data |-> frame.data[c]]

\* InternalSeries(np.nan, index=pred.index)
NaNSeries(ix) == [index |-> ix, data |-> [r \in ix |-> NaN]]

\* one side of gt.align(pred): outer join on the row labels, NaN where absent
AlignTo(s, ix) ==
    [index |-> ix, data |-> [r \in ix |-> IF r \in s.index THEN s.data[r] ELSE NaN]]

\* NonNullIndex without "& pred.notnull()"
NonNullIndexGtOnly(gt, pred) ==
    {r \in gt.index : gt.data[r] # NaN}

\* gt.notnull() & pred.notnull(), as the set of row labels where it is True
NonNullIndex(gt, pred) ==
    {r \in gt.index : gt.data[r] # NaN /\ pred.data[r] # NaN}

\* gt[nonnull_index], pred[nonnull_index]
Select(s, ix) == [index |-> ix, data |-> [r \in ix |-> s.data[r]]]

\* ExactMatch comparing with != instead of ==
ExactMatchNotEqual(gt, pred) ==
    [index |-> gt.index, data |-> [r \in gt.index |-> Bool(gt.data[r] # pred.data[r])]]

\* gt == pred
ExactMatch(gt, pred) ==
    [index |-> gt.index, data |-> [r \in gt.index |-> Bool(gt.data[r] = pred.data[r])]]

\* similarity of two strings in percent, as the fuzzy primitive scores them
Similarity(a, b) == IF a = b THEN 100 ELSE 86

\* fuzzy_match(gt, pred, threshold): True iff similarity >= threshold
fuzzy_match(gt, pred, threshold) ==
    [index |-> gt.index,
     data |-> [r \in gt.index |-> Bool(Similarity(gt.data[r], pred.data[r]) >= threshold)]]

\* a user comparator matching_function(g, p); "startswith" is
\* lambda g, p: p.startswith(g) on the strings of Values
CallComparator(name, g, p) ==
    IF name = "startswith" THEN g = p \/ (g = "dog" /\ p = "doge") ELSE FALSE

\* gt.combine(pred, lambda g, p: self.matching_function(g, p))
Combine(gt, pred, name) ==
    [index |-> gt.index,
     data |-> [r \in gt.index |-> Bool(CallComparator(name, gt.data[r], pred.data[r]))]]

\* InternalDataFrameConcat([gt_pred_match.rename("match"), gt], axis=1):
\* two columns labelled "match" and gt.name (= gt_column), labels may repeat
MatchConcat(gt_pred_match, gt, gt_column) ==
    [labels |-> <<"match", gt_column>>,
     index  |-> gt.index,
     cols   |-> <<gt_pred_match.data, gt.data>>]

\* row[label] is a Series, not a scalar, when the label occurs twice in the row
IsSeries(mc, label) == Cardinality({i \in 1..2 : mc.labels[i] = label}) # 1

\* row[label] for a label that occurs once
RowGet(mc, r, label) == mc.cols[CHOOSE i \in 1..2 : mc.labels[i] = label][r]

\* Python truth value of a cell: only False is falsy (NaN is truthy)
Truthy(v) == v # False

\* FeedbackRow with "if pd.isna(...)" in place of "if not pd.isna(...)"
FeedbackRowMissingNot(mc, r, gt_column) ==
    LET m == RowGet(mc, r, "match")
    IN  IF Truthy(m) THEN "Prediction is correct."
        ELSE IF m = NaN
             THEN "Prediction is incorrect. Correct answer: \""
                  \o RowGet(mc, r, gt_column) \o "\""
             ELSE NaN

\* the row lambda of match_concat.apply, for a row whose labels are unique
FeedbackRow(mc, r, gt_column) ==
    LET m == RowGet(mc, r, "match")
    IN  IF Truthy(m) THEN "Prediction is correct."
        ELSE IF m # NaN
             THEN "Prediction is incorrect. Correct answer: \""
                  \o RowGet(mc, r, gt_column) \o "\""
             ELSE NaN

\* match_concat.apply(<row lambda>, axis=1).  bool(row["match"]) raises
\* ValueError when row["match"] is a Series.  On a frame without rows pandas
\* probes the lambda with an all-NaN row: a raising probe returns a copy of the
\* (two-dimensional) frame, a string-valued probe an empty series.
Apply(mc, gt_column) ==
    IF mc.index = {}
    THEN [raised |-> "", ndim |-> IF IsSeries(mc, "match") THEN 2 ELSE 1,
          index |-> {}, data |-> <<>>]
    ELSE IF IsSeries(mc, "match")
    THEN [raised |-> "ValueError", ndim |-> 1, index |-> {}, data |-> <<>>]
    ELSE [raised |-> "", ndim |-> 1, index |-> mc.index,
          data |-> [r \in mc.index |-> FeedbackRow(mc, r, gt_column)]]

\* Reindex without the .reindex(predictions.index): the union of the series' rows
ReindexDropped(dict, ix) ==
    LET rows == UNION {dict[c].index : c \in DOMAIN dict}
    IN  [columns |-> DOMAIN dict,
         index   |-> rows,
         data    |-> [c \in DOMAIN dict |->
                       [r \in rows |-> IF r \in dict[c].index THEN dict[c].data[r]
                                       ELSE NaN]]]

\* InternalDataFrame(dict of series).reindex(index)
Reindex(dict, ix) ==
    [columns |-> DOMAIN dict,
     index   |-> ix,
     data    |-> [c \in DOMAIN dict |->
                   [r \in ix |-> IF r \in dict[c].index THEN dict[c].data[r] ELSE NaN]]]

\* dict[key] = value
Put(dict, key, value) ==
    [k \in DOMAIN dict \cup {key} |-> IF k = key THEN value ELSE dict[k]]

----------------------------------------------------------------------------
(* StaticEnvironment.get_feedback *)

\* the environment object the methods are called on
Self ==
    [df                   |-> df,
     ground_truth_columns |-> ground_truth_columns,
     matching_function    |-> matching_function,
     matching_threshold   |-> matching_threshold]

\* GtColumn that never consults the mapping
GtColumnUnmapped(self, pred_column) == pred_column

\* gt_column = self.ground_truth_columns.get(pred_column, pred_column)
GtColumn(self, pred_column) ==
    IF pred_column \in DOMAIN self.ground_truth_columns
    THEN self.ground_truth_columns[pred_column]
    ELSE pred_column

\* the dispatch on self.matching_function: the match series, or the raise
GtPredMatch(self, gt, pred) ==
    IF self.matching_function.kind = "str"
    THEN IF self.matching_function.name = "exact"
         THEN [raised |-> "", series |-> ExactMatch(gt, pred)]
         ELSE IF self.matching_function.name = "fuzzy"
         THEN [raised |-> "", series |-> fuzzy_match(gt, pred, self.matching_threshold)]
         ELSE [raised |-> "NotImplementedError", series |-> NaNSeries({})]
    ELSE [raised |-> "", series |-> Combine(gt, pred, self.matching_function.name)]

\* gt, pred = gt.align(pred); nonnull_index; gt[nonnull_index], pred[nonnull_index]
AlignedNonNull(gt0, pred0) ==
    LET ix    == gt0.index \cup pred0.index
        gtA   == AlignTo(gt0, ix)
        predA == AlignTo(pred0, ix)
        nn    == NonNullIndex(gtA, predA)
    IN  [gt |-> Select(gtA, nn), pred |-> Select(predA, nn)]

NoSeries == [ndim |-> 1, index |-> {}, data |-> <<>>]

\* one iteration of "for pred_column in pred_columns" over the (sampled)
\* predictions: the entries stored in pred_match and pred_feedback, or the raise
FieldStep(self, pred_column, preds) ==
    IF pred_column \notin preds.columns
    THEN [raised |-> "KeyError", match |-> NoSeries, feedback |-> NoSeries]
    ELSE
    LET pred0     == Column(preds, pred_column)
        gt_column == GtColumn(self, pred_column)
    IN  IF gt_column \notin self.df.columns
        THEN [raised   |-> "",
              match    |-> NaNSeries(pred0.index),
              feedback |-> [ndim |-> 1, index |-> pred0.index,
                            data |-> [r \in pred0.index |-> NaN]]]
        ELSE
        LET a == AlignedNonNull(Column(self.df, gt_column), pred0)
            m == GtPredMatch(self, a.gt, a.pred)
        IN  IF m.raised # ""
            THEN [raised |-> m.raised, match |-> NoSeries, feedback |-> NoSeries]
            ELSE
            LET f == Apply(MatchConcat(m.series, a.gt, gt_column), gt_column)
            IN  [raised   |-> f.raised,
                 match    |-> m.series,
                 feedback |-> [ndim |-> f.ndim, index |-> f.index, data |-> f.data]]

\* the loop over pred_columns, stopping at the first raise
RECURSIVE Loop(_, _, _, _)
Loop(self, pred_columns, preds, acc) ==
    IF pred_columns = <<>> \/ acc.raised # ""
    THEN acc
    ELSE LET step == FieldStep(self, Head(pred_columns), preds)
         IN  Loop(self, Tail(pred_columns), preds,
                  IF step.raised # ""
                  THEN [acc EXCEPT !.raised = step.raised]
                  ELSE [raised        |-> "",
                        pred_match    |-> Put(acc.pred_match, Head(pred_columns), step.match),
                        pred_feedback |-> Put(acc.pred_feedback, Head(pred_columns),
                                              step.feedback)])

\* EnvironmentFeedback(match=InternalDataFrame(pred_match).reindex(...),
\*                     feedback=InternalDataFrame(pred_feedback).reindex(...));
\* a dict entry that is a dataframe is rejected by the dataframe constructor
EnvironmentFeedback(acc, ix) ==
    IF \E c \in DOMAIN acc.pred_feedback : acc.pred_feedback[c].ndim = 2
    THEN [raised |-> "ValueError", fb |-> NoFeedback]
    ELSE [raised |-> "",
          fb |-> [match    |-> Reindex(acc.pred_match, ix),
                  feedback |-> Reindex(acc.pred_feedback, ix)]]

\* frame.sample(n) having drawn the rows s
Sample(frame, s) ==
    [columns |-> frame.columns,
     index   |-> s,
     data    |-> [c \in frame.columns |-> [r \in s |-> frame.data[c][r]]]]

\* n is too large for frame.sample(n=n)
TooLarge(frame, n) == \E k \in n : k > Cardinality(frame.index)

\* s is a possible draw of frame.sample(n) (all rows when n is None)
IsDraw(frame, n, s) ==
    IF n = None THEN s = frame.index
    ELSE IF TooLarge(frame, n) THEN s = {}
    ELSE s \subseteq frame.index /\ n = Some(Cardinality(s))

\* the body of get_feedback: what it raises or returns
GetFeedback(self, pred_columns, preds, n, s) ==
    IF TooLarge(preds, n)
    THEN [raised |-> "ValueError", fb |-> NoFeedback]
    ELSE
    LET sampled == IF n = None THEN preds ELSE Sample(preds, s)
        acc     == Loop(self, pred_columns, sampled,
                        [raised |-> "", pred_match |-> <<>>, pred_feedback |-> <<>>])
    IN  IF acc.raised # ""
        THEN [raised |-> acc.raised, fb |-> NoFeedback]
        ELSE EnvironmentFeedback(acc, sampled.index)

get_feedback(pred_columns, n, s) ==
    /\ IsDraw(predictions, n, s)
    /\ op' = "get_feedback"
    /\ skills' = pred_columns
    /\ num_feedbacks' = n
    /\ sample' = s
    /\ LET res == GetFeedback(Self, pred_columns, predictions, n, s)
       IN  raised' = res.raised /\ fb' = res.fb
    /\ batch' = EmptyFrame
    /\ history' = (history \/ op # "none")
    /\ UNCHANGED <<env, predictions, constructed>>

----------------------------------------------------------------------------
(* get_data_batch, save, restore *)

\* get_data_batch that samples self.df in place
get_data_batch_inplace(batch_size, s) ==
    /\ IsDraw(df, batch_size, s)
    /\ op' = "get_data_batch"
    /\ skills' = <<>>
    /\ num_feedbacks' = batch_size
    /\ sample' = s
    /\ IF TooLarge(df, batch_size)
       THEN raised' = "ValueError" /\ batch' = EmptyFrame /\ df' = df
       ELSE /\ raised' = ""
            /\ df' = (IF batch_size = None THEN df ELSE Sample(df, s))
            /\ batch' = df'
    /\ fb' = NoFeedback
    /\ history' = (history \/ op # "none")
    /\ UNCHANGED <<ground_truth_columns, matching_function, matching_threshold,
                   predictions, constructed>>

get_data_batch(batch_size, s) ==
    /\ IsDraw(df, batch_size, s)
    /\ op' = "get_data_batch"
    /\ skills' = <<>>
    /\ num_feedbacks' = batch_size
    /\ sample' = s
    /\ IF TooLarge(df, batch_size)
       THEN raised' = "ValueError" /\ batch' = EmptyFrame
       ELSE raised' = "" /\ batch' = IF batch_size = None THEN df ELSE Sample(df, s)
    /\ fb' = NoFeedback
    /\ history' = (history \/ op # "none")
    /\ UNCHANGED <<env, predictions, constructed>>

\* save that returns None instead of raising
save_returns ==
    /\ op' = "save"
    /\ raised' = ""
    /\ skills' = <<>>
    /\ num_feedbacks' = None
    /\ sample' = {}
    /\ fb' = NoFeedback
    /\ batch' = EmptyFrame
    /\ history' = (history \/ op # "none")
    /\ UNCHANGED <<env, predictions, constructed>>

save ==
    /\ op' = "save"
    /\ raised' = "NotImplementedError"
    /\ skills' = <<>>
    /\ num_feedbacks' = None
    /\ sample' = {}
    /\ fb' = NoFeedback
    /\ batch' = EmptyFrame
    /\ history' = (history \/ op # "none")
    /\ UNCHANGED <<env, predictions, constructed>>

restore ==
    /\ op' = "restore"
    /\ raised' = "NotImplementedError"
    /\ skills' = <<>>
    /\ num_feedbacks' = None
    /\ sample' = {}
    /\ fb' = NoFeedback
    /\ batch' = EmptyFrame
    /\ history' = (history \/ op # "none")
    /\ UNCHANGED <<env, predictions, constructed>>

\* the caller produces the predictions dataframe it will pass to get_feedback
Predict(preds) ==
    /\ predictions' = preds
    /\ op' = "none"
    /\ skills' = <<>>
    /\ num_feedbacks' = None
    /\ sample' = {}
    /\ raised' = ""
    /\ fb' = NoFeedback
    /\ batch' = EmptyFrame
    /\ history' = (history \/ op # "none")
    /\ UNCHANGED <<env, constructed>>

----------------------------------------------------------------------------
(* Specifications *)

MaxSkills == 2

\* num_feedbacks and batch_size: None, or up to one more than any frame has rows
Sizes == {None} \cup {Some(k) : k \in 0..(MaxRows + 1)}

\* nothing has been called on the environment since the predictions were made
NoCall ==
    /\ op = "none"
    /\ skills = <<>>
    /\ num_feedbacks = None
    /\ sample = {}
    /\ raised = ""
    /\ fb = NoFeedback
    /\ batch = EmptyFrame

\* dataframes with the columns cols and the rows 1..k, for each k
PrefixFrames(cols, cells) ==
    UNION { [columns : {cols}, index : {1..k}, data : [cols -> [1..k -> cells]]]
            : k \in 0..MaxRows }

\* sequences of at most MaxSkills names
SkillOutputs(names) == UNION { [1..k -> names] : k \in 0..MaxSkills }

DataBatch ==
    \E n \in Sizes : \E s \in SUBSET Rows : get_data_batch(n, s)

\* Data family: one output "label" with the default (empty) mapping; any cells
\* in the ground truth and the predictions, each of which may lack rows of the
\* other; every matching function.
DataPredictions == Frames({{"label"}}, {"dog", NaN})

Init ==
    /\ df \in PrefixFrames({"label"}, Cell) \cup {EmptyFrame}
    /\ ground_truth_columns = <<>>
    /\ \/ /\ matching_function \in {Str("exact"), Str("regex"), Callable("startswith")}
          /\ matching_threshold = DefaultThreshold
       \/ /\ matching_function = Str("fuzzy")
          /\ matching_threshold = 80
    /\ predictions \in DataPredictions
    /\ constructed = Self
    /\ history = FALSE
    /\ NoCall

Predictions == \E preds \in DataPredictions : Predict(preds)

Evaluate ==
    \E pred_columns \in {<<>>, <<"label">>} :
    \E n \in Sizes :
    \E s \in SUBSET Rows :
        get_feedback(pred_columns, n, s)

Next == Predictions \/ Evaluate \/ DataBatch \/ save \/ restore

Spec == Init /\ [][Next]_vars

\* Schema family: outputs "label" and "color", ground-truth columns among
\* "label", "gt" and "match", any mapping with at most one key; the cells of
\* a column are all alike.
PredFields == {"label", "color"}
RefColumns == {"label", "gt", "match"}

ColumnValue(c) == IF c = "label" THEN "dog" ELSE "doge"

SchemaFrames ==
    { [columns |-> cs, index |-> Rows,
       data |-> [c \in cs |-> [r \in Rows |-> ColumnValue(c)]]] : cs \in SUBSET RefColumns }

Mappings ==
    {<<>>} \cup UNION { [{f} -> RefColumns] : f \in PredFields }

SchemaPredictions ==
    UNION { { [columns |-> cs, index |-> 1..k,
               data |-> [c \in cs |-> [r \in 1..k |-> v]]] : k \in 0..MaxRows }
            : <<cs, v>> \in {PredFields, {"label"}} \X {"dog", NaN} }

InitSchema ==
    /\ df \in SchemaFrames
    /\ ground_truth_columns \in Mappings
    /\ matching_function \in {Str("exact"), Str("regex"), Str("fuzzy"),
                              Callable("startswith")}
    /\ matching_threshold = DefaultThreshold
    /\ predictions \in SchemaPredictions
    /\ constructed = Self
    /\ history = FALSE
    /\ NoCall

PredictionsSchema == \E preds \in SchemaPredictions : Predict(preds)

EvaluateSchema ==
    \E pred_columns \in SkillOutputs(PredFields) :
        get_feedback(pred_columns, None, predictions.index)

NextSchema == PredictionsSchema \/ EvaluateSchema \/ DataBatch \/ save \/ restore

SpecSchema == InitSchema /\ [][NextSchema]_vars

----------------------------------------------------------------------------
(* Properties *)

Called   == op = "get_feedback"
Returned == Called /\ raised = ""

\* the rows of the predictions that were evaluated (after the optional sample)
Evaluated == IF num_feedbacks = None THEN predictions.index ELSE sample

\* the outputs that were evaluated
Outputs == {skills[i] : i \in DOMAIN skills}

Supported ==
    matching_function.kind = "callable" \/ matching_function.name \in {"exact", "fuzzy"}

Correct == "Prediction is correct."
Incorrect(v) == "Prediction is incorrect. Correct answer: \"" \o v \o "\""

\* what the configured matching function answers for one pair of values
Verdict(g, p) ==
    IF matching_function.kind = "callable"
    THEN CallComparator(matching_function.name, g, p)
    ELSE IF matching_function.name = "exact" THEN g = p
    ELSE Similarity(g, p) >= matching_threshold

\* ground truth and prediction of output f at row r are both present and non-null
Comparable(c, f, r) ==
    /\ c \in df.columns
    /\ r \in df.index
    /\ df.data[c][r] # NaN
    /\ predictions.data[f][r] # NaN

\* C1: in every returned feedback under an exact, fuzzy or callable matching
\* function, for every column f and row r: match is True iff the feedback is
\* "Prediction is correct."; match is False iff the feedback is the
\* "Prediction is incorrect. Correct answer: ..." string quoting the ground
\* truth of row r; match is NaN iff the feedback is NaN.
C1_MatchFeedbackAgree ==
    (Returned /\ Supported) =>
        /\ fb.feedback.columns = fb.match.columns
        /\ fb.feedback.index = fb.match.index
        /\ \A f \in fb.match.columns : \A r \in fb.match.index :
            LET m == fb.match.data[f][r]
                t == fb.feedback.data[f][r]
                c == GtColumn(Self, f)
            IN  /\ m \in {True, False, NaN}
                /\ (m = True) <=> (t = Correct)
                /\ (m = False) <=> /\ c \in df.columns
                                   /\ r \in df.index
                                   /\ t = Incorrect(df.data[c][r])
                /\ (m = NaN) <=> (t = NaN)

C1_Witness ==
    /\ Returned
    /\ matching_function.kind = "callable"
    /\ skills = <<"label">>
    /\ \E r1, r2 \in fb.match.index :
        /\ fb.match.data["label"][r1] = False
        /\ fb.feedback.data["label"][r1] = "Prediction is incorrect. Correct answer: \"doge\""
        /\ fb.match.data["label"][r2] = True
        /\ fb.feedback.data["label"][r2] = "Prediction is correct."

\* C2: the row index of the match table and of the feedback table of every
\* returned feedback is the row index of the predictions that were evaluated:
\* all of them, or the num_feedbacks sampled ones.  No ground-truth-only row
\* is added and no prediction row is dropped.
C2_RowIndexPreserved ==
    Returned =>
        /\ fb.match.index = Evaluated
        /\ fb.feedback.index = Evaluated
        /\ Evaluated \subseteq predictions.index
        /\ \A k \in num_feedbacks : Cardinality(Evaluated) = k
        /\ fb.match.columns = Outputs
        /\ fb.feedback.columns = Outputs
        /\ \A f \in Outputs : /\ DOMAIN fb.match.data[f] = Evaluated
                              /\ DOMAIN fb.feedback.data[f] = Evaluated

\* one of two prediction rows is sampled; it has no ground-truth row, and the
\* ground truth has a row that was not sampled
C2_Witness ==
    /\ Returned
    /\ skills = <<"label">>
    /\ "label" \in df.columns
    /\ num_feedbacks = Some(1)
    /\ Cardinality(predictions.index) = 2
    /\ fb.match.index = sample
    /\ \E r \in sample : r \notin df.index
    /\ \E r \in df.index : r \notin sample /\ df.data["label"][r] # NaN

C5_ExactIsEquality ==
    (Returned /\ matching_function = Str("exact")) =>
        \A f \in Outputs : \A r \in Evaluated :
            LET c == GtColumn(Self, f)
            IN  Comparable(c, f, r) =>
                    IF df.data[c][r] = predictions.data[f][r]
                    THEN /\ fb.match.data[f][r] = True
                         /\ fb.feedback.data[f][r] = Correct
                    ELSE /\ fb.match.data[f][r] = False
                         /\ fb.feedback.data[f][r] = Incorrect(df.data[c][r])

\* ground truth {1: "dog", 2: "doge"} against predictions {1: "dog", 2: "dog"}
C5_Witness ==
    /\ Returned
    /\ matching_function = Str("exact")
    /\ skills = <<"label">>
    /\ num_feedbacks = None
    /\ df.index = {1, 2}
    /\ predictions.index = {1, 2}
    /\ df.data["label"][1] = "dog" /\ predictions.data["label"][1] = "dog"
    /\ df.data["label"][2] = "doge" /\ predictions.data["label"][2] = "dog"
    /\ fb.match.data["label"][1] = True
    /\ fb.feedback.data["label"][1] = "Prediction is correct."
    /\ fb.match.data["label"][2] = False
    /\ fb.feedback.data["label"][2] = "Prediction is incorrect. Correct answer: \"doge\""

\* C8: every call of save or restore raises NotImplementedError, returns
\* nothing, and leaves df, ground_truth_columns, matching_function and
\* matching_threshold as they were.
C8_SaveRestoreRaise ==
    [][op' \in {"save", "restore"} =>
        /\ raised' = "NotImplementedError"
        /\ fb' = NoFeedback
        /\ batch' = EmptyFrame
        /\ env' = env]_vars

C8_Witness ==
    /\ op \in {"save", "restore"}
    /\ history
    /\ raised = "NotImplementedError"
    /\ df.index # {}
    /\ predictions.index # {}

\* C9: no operation changes the environment's fields, and whatever was called
\* before, get_feedback without sampling returns what it returns on the
\* environment as constructed for the same outputs and predictions.
C9_HistoryIndependent ==
    /\ Self = constructed
    /\ (Called /\ num_feedbacks = None) =>
        [raised |-> raised, fb |-> fb]
            = GetFeedback(constructed, skills, predictions, None, predictions.index)

C9_Witness ==
    /\ Returned
    /\ history
    /\ num_feedbacks = None
    /\ skills = <<"label">>
    /\ Cardinality(df.index) = 2
    /\ \E r \in fb.match.index : fb.match.data["label"][r] = True
    /\ \E r \in fb.match.index : fb.match.data["label"][r] = NaN

\* C3: every get_feedback call on an environment whose matching function is a
\* string other than "exact" and "fuzzy" raises NotImplementedError and returns
\* no feedback, whatever the outputs and the predictions (stated for the calls
\* that name at least one output, each a column of the predictions).
C3_UnknownFunctionAlwaysRaises ==
    (Called /\ matching_function.kind = "str"
            /\ matching_function.name \notin {"exact", "fuzzy"}
            /\ skills # <<>>
            /\ Outputs \subseteq predictions.columns) =>
        /\ raised = "NotImplementedError"
        /\ fb = NoFeedback

C7_UnmappedOutputIsNaN ==
    (Returned /\ DOMAIN ground_truth_columns # {}) =>
        \A f \in Outputs :
            f \notin DOMAIN ground_truth_columns =>
                \A r \in Evaluated :
                    /\ fb.match.data[f][r] = NaN
                    /\ fb.feedback.data[f][r] = NaN

\* C10: for every row whose match is False (both values present, the matching
\* function answering no) get_feedback returns, and the row's feedback is
\* 'Prediction is incorrect. Correct answer: "<v>"' with v the row's value in
\* the ground-truth column, whatever that column is named.
C10_IncorrectQuotesGroundTruth ==
    (Called /\ Supported /\ Outputs \subseteq predictions.columns) =>
        \A f \in Outputs : \A r \in Evaluated :
            LET c == GtColumn(Self, f)
            IN  (Comparable(c, f, r)
                    /\ ~Verdict(df.data[c][r], predictions.data[f][r])) =>
                    /\ raised = ""
                    /\ fb.match.data[f][r] = False
                    /\ fb.feedback.data[f][r] = Incorrect(df.data[c][r])

====
